---- MODULE Spec2Model ----
(***************************************************************************)
(* Model of the cycle loop of src/backend/pipeline_fixed.cpp: the          *)
(* instruction vector, the per-instruction PipelineState vector, the       *)
(* RegisterScoreboard, the ExecutionUnits pool, the Statistics counters    *)
(* and the six passes of one simulated cycle (writeback, execute, issue,   *)
(* decode, fetch, accounting + snapshot).                                  *)
(*                                                                         *)
(* The OpenMP-parallel passes (writeback, execute, fetch, accounting) are  *)
(* modelled as a sweep over the slots in index order: each iteration       *)
(* writes only its own states[i], `completed++` is atomic, `release` is    *)
(* inside a critical section and clearBusy only ever stores `false`.       *)
(***************************************************************************)
EXTENDS Integers, Sequences, FiniteSets, TLC

(***************************************************************************)
(* Bounds of the model.                                                    *)
(***************************************************************************)
\* longest instruction list drawn in Init
MaxInstrs == 3
\* longest instruction list that may contain a NOP-opcode instruction
\* (such a run lasts MAX_CYCLES cycles)
MaxNopInstrs == 2
\* the same two bounds for the instruction lists of the fair specification
LiveMaxInstrs == 2
LiveMaxNopInstrs == 1
\* longest list of input lines handed to main in the specification of main
MaxLines == 2
\* lines of a program whose parallel loops are run iteration by iteration
ParMaxInstrs == 2

(***************************************************************************)
(* enum Stage { IDLE, FETCH, DECODE, ISSUE, EXECUTE, WRITEBACK, COMPLETE } *)
(***************************************************************************)
IDLE == 0
FETCH == 1
DECODE == 2
ISSUE == 3
EXECUTE == 4
WRITEBACK == 5
COMPLETE == 6

Stages == IDLE..COMPLETE

(***************************************************************************)
(* enum ExecUnit, as the names unitToString gives them.                    *)
(***************************************************************************)
ALU_UNIT == "ALU"
FPU_UNIT == "FPU"
MEM_UNIT == "MEM"
BRANCH_UNIT == "BRANCH"
ANY_UNIT == "ANY"

\* the keys of ExecutionUnits::capacity / available
Units == {ALU_UNIT, FPU_UNIT, MEM_UNIT, BRANCH_UNIT}

unitToString(u) == u

Opcodes == {"ADD", "SUB", "MUL", "DIV", "FADD", "FMUL", "FDIV",
            "LOAD", "STORE", "BEQ", "BNE", "JMP", "NOP"}

getExecUnit(op) ==
    CASE op \in {"ADD", "SUB", "MUL", "DIV"} -> ALU_UNIT
      [] op \in {"FADD", "FMUL", "FDIV"} -> FPU_UNIT
      [] op \in {"LOAD", "STORE"} -> MEM_UNIT
      [] op \in {"BEQ", "BNE", "JMP"} -> BRANCH_UNIT
      [] OTHER -> ANY_UNIT

getLatency(op) ==
    CASE op \in {"ADD", "SUB"} -> 1
      [] op = "MUL" -> 3
      [] op = "DIV" -> 8
      [] op = "FADD" -> 4
      [] op = "FMUL" -> 5
      [] op = "FDIV" -> 12
      [] op = "LOAD" -> 3
      [] op = "STORE" -> 2
      [] op \in {"BEQ", "BNE", "JMP"} -> 1
      [] OTHER -> 1

\* RegisterScoreboard scoreboard(32)
NUM_REGISTERS == 32
\* const int MAX_CYCLES = 500
MAX_CYCLES == 500

\* ExecutionUnits::ExecutionUnits(): capacity
\* ExecutionUnits with a single ALU
capacitySingleAlu ==
    [u \in Units |-> 1]

capacity ==
    [u \in Units |->
        CASE u = ALU_UNIT -> 2
          [] u = FPU_UNIT -> 1
          [] u = MEM_UNIT -> 1
          [] u = BRANCH_UNIT -> 1]

(***************************************************************************)
(* struct Instruction                                                      *)
(***************************************************************************)
Instruction(_id, _op, _s1, _s2, _d, _orig, _br, _bt) ==
    [id |-> _id, opcode |-> _op, src1 |-> _s1, src2 |-> _s2, dest |-> _d,
     original_string |-> _orig, is_branch |-> _br, branch_target |-> _bt]

(***************************************************************************)
(* Input lines.  A line is its text, its first character (line[0], "" for  *)
(* the empty line) and the whitespace-separated tokens that istringstream  *)
(* extraction (iss >> s) yields from it.                                   *)
(***************************************************************************)
Line(text, first, toks) == [text |-> text, first |-> first, toks |-> toks]

\* lines of the grammar, from which Init draws the programs to simulate
Menu ==
    { Line("ADD R1 R2 R3", "A", <<"ADD", "R1", "R2", "R3">>),
      Line("ADD R4 R1 R5", "A", <<"ADD", "R4", "R1", "R5">>),
      Line("SUB R4 R5 R6", "S", <<"SUB", "R4", "R5", "R6">>),
      Line("DIV R1 R2 R3", "D", <<"DIV", "R1", "R2", "R3">>),
      Line("FMUL R1 R2 R3", "F", <<"FMUL", "R1", "R2", "R3">>),
      Line("FADD R4 R5 R6", "F", <<"FADD", "R4", "R5", "R6">>),
      Line("LOAD R1 R2", "L", <<"LOAD", "R1", "R2">>),
      Line("STORE R3 R1", "S", <<"STORE", "R3", "R1">>),
      Line("BEQ R1 R2 8", "B", <<"BEQ", "R1", "R2", "8">>),
      Line("NOP", "N", <<"NOP">>),
      Line("NOP R4 R1 R3", "N", <<"NOP", "R4", "R1", "R3">>) }

\* lines main may be handed besides: empty, comment, blank, unknown first
\* token, branch without a target
OtherLines ==
    { Line("", "", <<>>),
      Line("# setup", "#", <<"#", "setup">>),
      Line("  ", " ", <<>>),
      Line("FOO R1 R2 R3", "F", <<"FOO", "R1", "R2", "R3">>),
      Line("JMP", "J", <<"JMP">>) }

InputLines == OtherLines \cup
    { Line("ADD R1 R2 R3", "A", <<"ADD", "R1", "R2", "R3">>),
      Line("BEQ R1 R2 8", "B", <<"BEQ", "R1", "R2", "8">>) }

\* the k-th token extracted from a line; extraction past the end leaves the
\* string empty
Tok(toks, k) == IF k <= Len(toks) THEN toks[k] ELSE ""

stringToOpcode(str) ==
    IF str \in {"ADD", "SUB", "MUL", "DIV", "FADD", "FMUL", "FDIV",
                "LOAD", "STORE", "BEQ", "BNE", "JMP"}
    THEN str
    ELSE "NOP"

\* std::stoi over the tokens that occur in the lines above: the value of a
\* token that starts with digits; any other token makes stoi throw
StoiValue ==
    [t \in {"1", "2", "3", "4", "5", "6", "8"} |->
        CASE t = "1" -> 1 [] t = "2" -> 2 [] t = "3" -> 3 [] t = "4" -> 4
          [] t = "5" -> 5 [] t = "6" -> 6 [] t = "8" -> 8]
StoiThrows(t) == t \notin DOMAIN StoiValue
stoi(t) == StoiValue[t]

\* the rest of a token that starts with 'R' (reg_str.substr(1)); "none" for
\* an empty token or one that does not start with 'R'
RegisterDigits ==
    [t \in {"R1", "R2", "R3", "R4", "R5", "R6"} |->
        CASE t = "R1" -> "1" [] t = "R2" -> "2" [] t = "R3" -> "3"
          [] t = "R4" -> "4" [] t = "R5" -> "5" [] t = "R6" -> "6"]

parseRegister(reg_str) ==
    IF reg_str \notin DOMAIN RegisterDigits THEN -1
    ELSE IF StoiThrows(RegisterDigits[reg_str]) THEN -1
    ELSE stoi(RegisterDigits[reg_str])

\* One iteration of the loop of loadInstructionsFromString over `line`,
\* with `id` the next id: kind "skip" (continue), "throw" (stoi throws out
\* of the function) or "push" with the instruction pushed.
LoadLine(line, id) ==
    LET t == line.toks
        opcode_str == Tok(t, 1)
        opcode == stringToOpcode(opcode_str)
        skip == [kind |-> "skip"]
        throw == [kind |-> "throw"]
        push(s1, s2, d, br, bt) ==
            [kind |-> "push",
             instr |-> Instruction(id, opcode, s1, s2, d, line.text, br, bt)]
    IN  IF line.first = "" \/ line.first = "#" THEN skip
        ELSE IF opcode_str = "" THEN skip
        ELSE IF opcode \in {"LOAD", "STORE"}
        THEN push(parseRegister(Tok(t, 3)), -1, parseRegister(Tok(t, 2)), FALSE, 0)
        ELSE IF opcode \in {"BEQ", "BNE"}
        THEN IF StoiThrows(Tok(t, 4)) THEN throw
             ELSE push(parseRegister(Tok(t, 2)), parseRegister(Tok(t, 3)), -1,
                       TRUE, stoi(Tok(t, 4)))
        ELSE IF opcode = "JMP"
        THEN IF StoiThrows(Tok(t, 2)) THEN throw
             ELSE push(-1, -1, -1, TRUE, stoi(Tok(t, 2)))
        ELSE push(parseRegister(Tok(t, 3)), parseRegister(Tok(t, 4)),
                  parseRegister(Tok(t, 2)), FALSE, 0)

\* loadInstructionsFromString from line k on: L = [instructions, id, threw]
RECURSIVE LoadFrom(_, _, _)
LoadFrom(lines, k, L) ==
    IF k > Len(lines) \/ L.threw THEN L
    ELSE LET r == LoadLine(lines[k], L.id)
         IN  LoadFrom(lines, k + 1,
                IF r.kind = "skip" THEN L
                ELSE IF r.kind = "throw" THEN [L EXCEPT !.threw = TRUE]
                ELSE [L EXCEPT !.instructions = Append(@, r.instr),
                               !.id = @ + 1])

loadInstructionsFromString(instruction_strings) ==
    LoadFrom(instruction_strings, 1,
             [instructions |-> <<>>, id |-> 1, threw |-> FALSE])

HasNop(p) == \E k \in DOMAIN p : p[k].opcode = "NOP"

\* the lists of up to len lines over Menu, up to noplen when a NOP is loaded
ProgramsUpTo(len, noplen) ==
    { ls \in UNION { [1..n -> Menu] : n \in 1..len } :
        HasNop(loadInstructionsFromString(ls).instructions) => Len(ls) <= noplen }

Programs == ProgramsUpTo(MaxInstrs, MaxNopInstrs)
ParPrograms == ProgramsUpTo(ParMaxInstrs, 0)
LivePrograms == ProgramsUpTo(LiveMaxInstrs, LiveMaxNopInstrs)

(***************************************************************************)
(* State.                                                                  *)
(***************************************************************************)
VARIABLES
    instruction_strings, \* the input lines
    instructions,   \* vector<Instruction>
    states,         \* vector<PipelineState>
    regs,           \* RegisterScoreboard::regs
    available,      \* ExecutionUnits::available
    stats,          \* Statistics
    cycle,          \* int cycle
    completed,      \* int completed
    pc,             \* position in main
    cycle_history,  \* vector<json> cycle_history: the "cycle" field of
                    \* every snapshot pushed so far, in order
    snapshot,       \* the snapshot pushed last, in full (<<>> before the first)
    output,         \* the JSON object written to standard output (<<>>: none)
    iter,           \* per slot, the position of its iteration of the parallel
                    \* loop that is running (<<>>: no parallel loop is running)
    at_entry,       \* states, scoreboard, units and completed as they were
                    \* when the running parallel loop was entered
    call,           \* the latest call made on the scoreboard or the unit
                    \* pool alone, with its arguments and its return value
                    \* (<<>>: none; main makes its calls inside the passes)
    snap_stage,     \* stage of every slot in the latest per-cycle snapshot
    seen            \* per slot, the stages it held in the snapshots so far

vars == <<instruction_strings, instructions, states, regs, available, stats,
          cycle, completed, pc, cycle_history, snapshot, output, iter, at_entry,
          call, snap_stage, seen>>

N == Len(instructions)
Slots == 1..N

\* PipelineState::PipelineState()
PipelineState ==
    [current_stage |-> IDLE, assigned_unit |-> ANY_UNIT, cycles_in_stage |-> 0,
     total_cycles |-> 0, stalled |-> FALSE, stall_reason |-> <<>>,
     issue_cycle |-> -1, complete_cycle |-> -1]

\* Statistics::Statistics()
Statistics ==
    [total_cycles |-> 0, instructions_completed |-> 0, total_stalls |-> 0,
     raw_hazards |-> 0, structural_hazards |-> 0, ipc |-> <<0, 1>>]

\* Statistics::calculate; the quotient ipc is kept as <<numerator, denominator>>
calculate(sts) ==
    [sts EXCEPT !.ipc = IF sts.total_cycles > 0
                        THEN <<sts.instructions_completed, sts.total_cycles>>
                        ELSE <<0, 1>>]

\* RegisterScoreboard::RegisterScoreboard(32)
RegisterScoreboard ==
    [r \in 0..(NUM_REGISTERS - 1) |->
        [busy |-> FALSE, writer_id |-> -1, ready_cycle |-> -1]]

\* main at the head of the simulation loop, the instructions of `progs` loaded
InitWith(progs) ==
    /\ instruction_strings \in progs
    /\ instructions = loadInstructionsFromString(instruction_strings).instructions
    /\ states = [i \in 1..Len(instructions) |-> PipelineState]
    /\ regs = RegisterScoreboard
    /\ available = capacity
    /\ stats = Statistics
    /\ cycle = 0
    /\ completed = 0
    /\ pc = "loop"
    /\ cycle_history = <<>>
    /\ snapshot = <<>>
    /\ output = <<>>
    /\ iter = <<>>
    /\ at_entry = <<>>
    /\ call = <<>>
    /\ snap_stage = [i \in 1..Len(instructions) |-> IDLE]
    /\ seen = [i \in 1..Len(instructions) |-> {}]

Init == InitWith(Programs)
ParInit == InitWith(ParPrograms)
LiveInit == InitWith(LivePrograms)

(***************************************************************************)
(* RegisterScoreboard                                                      *)
(***************************************************************************)
ValidReg(reg) == reg >= 0 /\ reg < NUM_REGISTERS

\* isBusy that still reports busy in the cycle the result is ready
isBusyInclusive(rg, reg, current_cycle) ==
    IF ~ValidReg(reg) THEN FALSE
    ELSE rg[reg].busy /\ rg[reg].ready_cycle >= current_cycle

isBusy(rg, reg, current_cycle) ==
    IF ~ValidReg(reg) THEN FALSE
    ELSE rg[reg].busy /\ rg[reg].ready_cycle > current_cycle

markBusy(rg, reg, instr_id, ready_cycle) ==
    IF ValidReg(reg)
    THEN [rg EXCEPT ![reg] = [busy |-> TRUE, writer_id |-> instr_id,
                              ready_cycle |-> ready_cycle]]
    ELSE rg

\* clearBusy that leaves the busy flag set
clearBusyNoop(rg, reg) == rg

clearBusy(rg, reg) ==
    IF ValidReg(reg) THEN [rg EXCEPT ![reg].busy = FALSE] ELSE rg

getWriter(rg, reg) == IF ValidReg(reg) THEN rg[reg].writer_id ELSE -1

(***************************************************************************)
(* ExecutionUnits                                                          *)
(***************************************************************************)
\* isAvailable answering true for a unit without an entry
isAvailableUnknownFree(av, unit) ==
    IF unit \in DOMAIN av THEN av[unit] > 0 ELSE TRUE

isAvailable(av, unit) == IF unit \in DOMAIN av THEN av[unit] > 0 ELSE FALSE

\* allocate: the returned bool is isAvailable(av, unit); this is the map after
allocate(av, unit) ==
    IF isAvailable(av, unit) THEN [av EXCEPT ![unit] = @ - 1] ELSE av

\* release without the capacity guard
releaseUnguarded(av, unit) ==
    IF unit \in DOMAIN av THEN [av EXCEPT ![unit] = @ + 1] ELSE av

\* release that never gives the unit back
releaseNever(av, unit) == av

release(av, unit) ==
    IF unit \in DOMAIN av /\ av[unit] < capacity[unit]
    THEN [av EXCEPT ![unit] = @ + 1]
    ELSE av

(***************************************************************************)
(* detectHazards: the returned bool (ok), the slot and the counters after. *)
(***************************************************************************)
\* detectHazards making the structural check before the RAW checks
detectHazardsStructuralFirst(instr, state, rg, av, c, sts) ==
    LET required == getExecUnit(instr.opcode)
        structural == ~isAvailable(av, required)
        raw1 == ~structural /\ isBusy(rg, instr.src1, c)
        raw2 == ~structural /\ ~raw1 /\ isBusy(rg, instr.src2, c)
        hazard == raw1 \/ raw2 \/ structural
        reason ==
            IF structural
            THEN <<"Structural - ", unitToString(required), " busy">>
            ELSE IF raw1
            THEN <<"RAW on R", instr.src1, " (writer: I", getWriter(rg, instr.src1), ")">>
            ELSE IF raw2
            THEN <<"RAW on R", instr.src2, " (writer: I", getWriter(rg, instr.src2), ")">>
            ELSE <<>>
        counted ==
            [sts EXCEPT !.raw_hazards = IF raw1 \/ raw2 THEN @ + 1 ELSE @,
                        !.structural_hazards = IF structural THEN @ + 1 ELSE @,
                        !.total_stalls = IF hazard THEN @ + 1 ELSE @]
    IN  IF hazard
        THEN [ok |-> FALSE,
              state |-> [state EXCEPT !.stalled = TRUE, !.stall_reason = reason],
              stats |-> counted]
        ELSE [ok |-> TRUE,
              state |-> [state EXCEPT !.stalled = FALSE, !.stall_reason = <<>>],
              stats |-> counted]

detectHazards(instr, state, rg, av, c, sts) ==
    LET raw1 == isBusy(rg, instr.src1, c)
        raw2 == ~raw1 /\ isBusy(rg, instr.src2, c)
        required == getExecUnit(instr.opcode)
        structural == ~raw1 /\ ~raw2 /\ ~isAvailable(av, required)
        hazard == raw1 \/ raw2 \/ structural
        reason ==
            IF raw1
            THEN <<"RAW on R", instr.src1, " (writer: I", getWriter(rg, instr.src1), ")">>
            ELSE IF raw2
            THEN <<"RAW on R", instr.src2, " (writer: I", getWriter(rg, instr.src2), ")">>
            ELSE IF structural
            THEN <<"Structural - ", unitToString(required), " busy">>
            ELSE <<>>
        counted ==
            [sts EXCEPT !.raw_hazards = IF raw1 \/ raw2 THEN @ + 1 ELSE @,
                        !.structural_hazards = IF structural THEN @ + 1 ELSE @,
                        !.total_stalls = IF hazard THEN @ + 1 ELSE @]
    IN  IF hazard
        THEN [ok |-> FALSE,
              state |-> [state EXCEPT !.stalled = TRUE, !.stall_reason = reason],
              stats |-> counted]
        ELSE [ok |-> TRUE,
              state |-> [state EXCEPT !.stalled = FALSE, !.stall_reason = <<>>],
              stats |-> counted]

(***************************************************************************)
(* The passes of one cycle.  Each XSlot is the body of the pass's loop for *)
(* slot i; XFrom sweeps the slots i..N in index order.                     *)
(***************************************************************************)
\* the loop guard with <= in the cycle test
LoopCondOffByOne == completed < N /\ cycle <= MAX_CYCLES

\* while (completed < instructions.size() && cycle < MAX_CYCLES)
LoopCond == completed < N /\ cycle < MAX_CYCLES

\* WriteBack stage; S = [st, rg, av, done]
WritebackSlot(i, S) ==
    IF S.st[i].current_stage = WRITEBACK
    THEN [st |-> [S.st EXCEPT ![i].current_stage = COMPLETE,
                              ![i].complete_cycle = cycle],
          rg |-> clearBusy(S.rg, instructions[i].dest),
          av |-> IF S.st[i].assigned_unit # ANY_UNIT
                 THEN release(S.av, S.st[i].assigned_unit)
                 ELSE S.av,
          done |-> S.done + 1]
    ELSE S

RECURSIVE WritebackFrom(_, _)
WritebackFrom(i, S) ==
    IF i > N THEN S ELSE WritebackFrom(i + 1, WritebackSlot(i, S))

\* ExecuteSlot without the latency test: one cycle in EXECUTE for every opcode
ExecuteSlotOneCycle(i, st) ==
    IF st[i].current_stage = EXECUTE
    THEN [st EXCEPT ![i].current_stage = WRITEBACK, ![i].cycles_in_stage = 0]
    ELSE st

\* Execute stage
ExecuteSlot(i, st) ==
    IF st[i].current_stage = EXECUTE
    THEN LET n == st[i].cycles_in_stage + 1
             required_cycles == getLatency(instructions[i].opcode)
         IN  IF n >= required_cycles
             THEN [st EXCEPT ![i].current_stage = WRITEBACK,
                             ![i].cycles_in_stage = 0]
             ELSE [st EXCEPT ![i].cycles_in_stage = n]
    ELSE st

RECURSIVE ExecuteFrom(_, _)
ExecuteFrom(i, st) ==
    IF i > N THEN st ELSE ExecuteFrom(i + 1, ExecuteSlot(i, st))

\* IssueSlot that flags the slot as stalled when allocate fails
IssueSlotStallOnFail(i, S) ==
    IF S.st[i].current_stage = ISSUE
    THEN LET unit == getExecUnit(instructions[i].opcode)
         IN  IF isAvailable(S.av, unit)
             THEN [st |-> [S.st EXCEPT ![i].current_stage = EXECUTE,
                                       ![i].assigned_unit = unit,
                                       ![i].cycles_in_stage = 0,
                                       ![i].issue_cycle = cycle],
                   rg |-> markBusy(S.rg, instructions[i].dest, instructions[i].id,
                                   cycle + getLatency(instructions[i].opcode)),
                   av |-> allocate(S.av, unit)]
             ELSE [S EXCEPT !.st[i].stalled = TRUE]
    ELSE S

\* IssueSlot that leaves the scoreboard alone when a STORE issues
IssueSlotStoreUnmarked(i, S) ==
    IF S.st[i].current_stage = ISSUE
    THEN LET unit == getExecUnit(instructions[i].opcode)
         IN  IF isAvailable(S.av, unit)
             THEN [st |-> [S.st EXCEPT ![i].current_stage = EXECUTE,
                                       ![i].assigned_unit = unit,
                                       ![i].cycles_in_stage = 0,
                                       ![i].issue_cycle = cycle],
                   rg |-> IF instructions[i].opcode = "STORE" THEN S.rg
                          ELSE markBusy(S.rg, instructions[i].dest,
                                        instructions[i].id,
                                        cycle + getLatency(instructions[i].opcode)),
                   av |-> allocate(S.av, unit)]
             ELSE S
    ELSE S

\* Issue stage; S = [st, rg, av]
IssueSlot(i, S) ==
    IF S.st[i].current_stage = ISSUE
    THEN LET unit == getExecUnit(instructions[i].opcode)
         IN  IF isAvailable(S.av, unit)
             THEN [st |-> [S.st EXCEPT ![i].current_stage = EXECUTE,
                                       ![i].assigned_unit = unit,
                                       ![i].cycles_in_stage = 0,
                                       ![i].issue_cycle = cycle],
                   rg |-> markBusy(S.rg, instructions[i].dest, instructions[i].id,
                                   cycle + getLatency(instructions[i].opcode)),
                   av |-> allocate(S.av, unit)]
             ELSE S
    ELSE S

\* the issue loop running from the last slot down to the first
IssueOrderReversed == [k \in 1..N |-> N + 1 - k]

\* for (int i = 0; i < instructions.size(); i++): the slots in program order
IssueOrder == [k \in 1..N |-> k]

RECURSIVE IssueFrom(_, _)
IssueFrom(k, S) ==
    IF k > N THEN S ELSE IssueFrom(k + 1, IssueSlot(IssueOrder[k], S))

\* DecodeSlot sending a stalled slot back to FETCH
DecodeSlotRefetch(i, S) ==
    IF S.st[i].current_stage = DECODE
    THEN LET d == detectHazards(instructions[i], S.st[i], regs, available,
                                cycle, S.sts)
         IN  [st |-> [S.st EXCEPT ![i] =
                        IF d.ok THEN [d.state EXCEPT !.current_stage = ISSUE]
                        ELSE [d.state EXCEPT !.current_stage = FETCH]],
              sts |-> d.stats]
    ELSE S

\* DecodeSlot that moves the slot to ISSUE whatever detectHazards returns
DecodeSlotIgnoreHazard(i, S) ==
    IF S.st[i].current_stage = DECODE
    THEN LET d == detectHazards(instructions[i], S.st[i], regs, available,
                                cycle, S.sts)
         IN  [st |-> [S.st EXCEPT ![i] =
                        [d.state EXCEPT !.current_stage = ISSUE]],
              sts |-> d.stats]
    ELSE S

\* Decode stage; S = [st, sts]
DecodeSlot(i, S) ==
    IF S.st[i].current_stage = DECODE
    THEN LET d == detectHazards(instructions[i], S.st[i], regs, available,
                                cycle, S.sts)
         IN  [st |-> [S.st EXCEPT ![i] =
                        IF d.ok THEN [d.state EXCEPT !.current_stage = ISSUE]
                        ELSE d.state],
              sts |-> d.stats]
    ELSE S

RECURSIVE DecodeFrom(_, _)
DecodeFrom(i, S) ==
    IF i > N THEN S ELSE DecodeFrom(i + 1, DecodeSlot(i, S))

\* FetchSlot with the two tests as independent ifs, IDLE tested first: a
\* slot admitted to FETCH is decoded by the same iteration
FetchSlotNoElse(i, st) ==
    IF st[i].current_stage = FETCH \/ st[i].current_stage = IDLE
    THEN [st EXCEPT ![i].current_stage = DECODE, ![i].cycles_in_stage = 0]
    ELSE st

\* FetchSlot admitting one slot per cycle: an IDLE slot is fetched only
\* when the slot before it has left FETCH
FetchSlotStaggered(i, st) ==
    IF st[i].current_stage = FETCH
    THEN [st EXCEPT ![i].current_stage = DECODE, ![i].cycles_in_stage = 0]
    ELSE IF st[i].current_stage = IDLE
            /\ (i = 1 \/ st[i - 1].current_stage \notin {IDLE, FETCH})
    THEN [st EXCEPT ![i].current_stage = FETCH]
    ELSE st

\* Fetch stage
FetchSlot(i, st) ==
    IF st[i].current_stage = FETCH
    THEN [st EXCEPT ![i].current_stage = DECODE, ![i].cycles_in_stage = 0]
    ELSE IF st[i].current_stage = IDLE
    THEN [st EXCEPT ![i].current_stage = FETCH]
    ELSE st

RECURSIVE FetchFrom(_, _)
FetchFrom(i, st) ==
    IF i > N THEN st ELSE FetchFrom(i + 1, FetchSlot(i, st))

\* Update total cycles for active instructions
AccountSlot(i, st) ==
    IF st[i].current_stage # IDLE /\ st[i].current_stage # COMPLETE
    THEN [st EXCEPT ![i].total_cycles = @ + 1]
    ELSE st

RECURSIVE AccountFrom(_, _)
AccountFrom(i, st) ==
    IF i > N THEN st ELSE AccountFrom(i + 1, AccountSlot(i, st))

(***************************************************************************)
(* captureCycleState: the snapshot of one cycle.                           *)
(***************************************************************************)
stageToString(s) ==
    CASE s = IDLE -> "IDLE"
      [] s = FETCH -> "FETCH"
      [] s = DECODE -> "DECODE"
      [] s = ISSUE -> "ISSUE"
      [] s = EXECUTE -> "EXECUTE"
      [] s = WRITEBACK -> "WRITEBACK"
      [] s = COMPLETE -> "COMPLETE"
      [] OTHER -> "UNKNOWN"

\* the keys of stage_map
StageNames == {"FETCH", "DECODE", "ISSUE", "EXECUTE", "WRITEBACK"}

\* CaptureSlot putting each slot at the front of its lists
CaptureSlotPrepend(i, snap, instrs, sts) ==
    LET staged ==
            IF sts[i].current_stage # IDLE /\ sts[i].current_stage # COMPLETE
            THEN [snap EXCEPT !.stages[stageToString(sts[i].current_stage)] =
                                  <<instrs[i].original_string>> \o @]
            ELSE snap
    IN  IF sts[i].stalled
        THEN [staged EXCEPT !.stalls =
                  <<[instruction |-> instrs[i].original_string,
                     reason |-> sts[i].stall_reason]>> \o @]
        ELSE staged

\* the body of captureCycleState's loop for slot i
CaptureSlot(i, snap, instrs, sts) ==
    LET staged ==
            IF sts[i].current_stage # IDLE /\ sts[i].current_stage # COMPLETE
            THEN [snap EXCEPT !.stages[stageToString(sts[i].current_stage)] =
                                  Append(@, instrs[i].original_string)]
            ELSE snap
    IN  IF sts[i].stalled
        THEN [staged EXCEPT !.stalls =
                  Append(@, [instruction |-> instrs[i].original_string,
                             reason |-> sts[i].stall_reason])]
        ELSE staged

RECURSIVE CaptureFrom(_, _, _, _)
CaptureFrom(i, snap, instrs, sts) ==
    IF i > Len(instrs) THEN snap
    ELSE CaptureFrom(i + 1, CaptureSlot(i, snap, instrs, sts), instrs, sts)

\* captureCycleState numbering the cycles from 0
captureCycleStateZeroBased(c, instrs, sts) ==
    CaptureFrom(1, [cycle |-> c - 1, stages |-> [n \in StageNames |-> <<>>],
                    stalls |-> <<>>], instrs, sts)

captureCycleState(c, instrs, sts) ==
    CaptureFrom(1, [cycle |-> c, stages |-> [n \in StageNames |-> <<>>],
                    stalls |-> <<>>], instrs, sts)

(***************************************************************************)
(* Actions: the steps of main's simulation loop.                           *)
(***************************************************************************)
\* LoopEnter of src/backend/pipeline.cpp, which calls exec_units.reset() at
\* the top of every cycle
LoopEnterReset ==
    /\ pc = "loop"
    /\ LoopCond
    /\ cycle' = cycle + 1
    /\ available' = capacity
    /\ pc' = "writeback"
    /\ UNCHANGED <<call, iter, at_entry, instruction_strings, instructions, states, regs, stats,
                   completed, cycle_history, snapshot, output, snap_stage, seen>>

LoopEnter ==
    /\ pc = "loop"
    /\ LoopCond
    /\ cycle' = cycle + 1
    /\ pc' = "writeback"
    /\ UNCHANGED <<call, iter, at_entry, instruction_strings, instructions, states, regs,
                   available, stats, completed, cycle_history, snapshot, output, snap_stage,
                   seen>>

WritebackPass ==
    /\ pc = "writeback"
    /\ LET R == WritebackFrom(1, [st |-> states, rg |-> regs, av |-> available,
                                  done |-> completed])
       IN  /\ states' = R.st
           /\ regs' = R.rg
           /\ available' = R.av
           /\ completed' = R.done
    /\ pc' = "execute"
    /\ UNCHANGED <<call, iter, at_entry, instruction_strings, instructions, stats, cycle,
                   cycle_history, snapshot, output, snap_stage, seen>>

ExecutePass ==
    /\ pc = "execute"
    /\ states' = ExecuteFrom(1, states)
    /\ pc' = "issue"
    /\ UNCHANGED <<call, iter, at_entry, instruction_strings, instructions, regs, available, stats,
                   cycle, completed, cycle_history, snapshot, output, snap_stage, seen>>

IssuePass ==
    /\ pc = "issue"
    /\ LET R == IssueFrom(1, [st |-> states, rg |-> regs, av |-> available])
       IN  /\ states' = R.st
           /\ regs' = R.rg
           /\ available' = R.av
    /\ pc' = "decode"
    /\ UNCHANGED <<call, iter, at_entry, instruction_strings, instructions, stats, cycle,
                   completed, cycle_history, snapshot, output, snap_stage, seen>>

DecodePass ==
    /\ pc = "decode"
    /\ LET R == DecodeFrom(1, [st |-> states, sts |-> stats])
       IN  /\ states' = R.st
           /\ stats' = R.sts
    /\ pc' = "fetch"
    /\ UNCHANGED <<call, iter, at_entry, instruction_strings, instructions, regs, available, cycle,
                   completed, cycle_history, snapshot, output, snap_stage, seen>>

FetchPass ==
    /\ pc = "fetch"
    /\ states' = FetchFrom(1, states)
    /\ pc' = "account"
    /\ UNCHANGED <<call, iter, at_entry, instruction_strings, instructions, regs, available, stats,
                   cycle, completed, cycle_history, snapshot, output, snap_stage, seen>>

\* the accounting pass and cycle_history.push_back(captureCycleState(...))
AccountingPass ==
    /\ pc = "account"
    /\ states' = AccountFrom(1, states)
    /\ snapshot' = captureCycleState(cycle, instructions, AccountFrom(1, states))
    /\ cycle_history' = Append(cycle_history, snapshot'.cycle)
    /\ snap_stage' = [i \in Slots |-> states[i].current_stage]
    /\ seen' = [i \in Slots |-> seen[i] \cup {states[i].current_stage}]
    /\ pc' = "loop"
    /\ UNCHANGED <<call, iter, at_entry, instruction_strings, instructions, regs, available, stats,
                   cycle, completed, output>>

\* the object main prints at its end: output["result"]
FinalResult(sts, history) ==
    [result |->
        [stats |-> [totalCycles |-> sts.total_cycles,
                    instructionsCompleted |-> sts.instructions_completed,
                    ipc |-> sts.ipc,
                    totalStalls |-> sts.total_stalls,
                    rawHazards |-> sts.raw_hazards,
                    structuralHazards |-> sts.structural_hazards],
         cycles |-> history]]

\* LoopExit reporting every instruction as completed
LoopExitAllComplete ==
    /\ pc = "loop"
    /\ ~LoopCond
    /\ stats' = calculate([stats EXCEPT !.total_cycles = cycle,
                                        !.instructions_completed = N])
    /\ output' = FinalResult(stats', cycle_history)
    /\ pc' = "done"
    /\ UNCHANGED <<call, iter, at_entry, instruction_strings, instructions, states, regs,
                   available, cycle, completed, cycle_history, snapshot,
                   snap_stage, seen>>

\* loop exit, "Calculate final statistics" and the final JSON output
LoopExit ==
    /\ pc = "loop"
    /\ ~LoopCond
    /\ stats' = calculate([stats EXCEPT !.total_cycles = cycle,
                                        !.instructions_completed = completed])
    /\ output' = FinalResult(stats', cycle_history)
    /\ pc' = "done"
    /\ UNCHANGED <<call, iter, at_entry, instruction_strings, instructions, states, regs,
                   available, cycle, completed, cycle_history, snapshot,
                   snap_stage, seen>>

Next ==
    \/ LoopEnter
    \/ WritebackPass
    \/ ExecutePass
    \/ IssuePass
    \/ DecodePass
    \/ FetchPass
    \/ AccountingPass
    \/ LoopExit

(***************************************************************************)
(* main from its start: the input lines are loaded before the loop.        *)
(***************************************************************************)
\* the lists of up to MaxLines input lines, the empty list included
Inputs == UNION { [1..n -> InputLines] : n \in 0..MaxLines }

MainInit ==
    /\ instruction_strings \in Inputs
    /\ instructions = <<>>
    /\ states = <<>>
    /\ regs = RegisterScoreboard
    /\ available = capacity
    /\ stats = Statistics
    /\ cycle = 0
    /\ completed = 0
    /\ pc = "load"
    /\ cycle_history = <<>>
    /\ snapshot = <<>>
    /\ output = <<>>
    /\ iter = <<>>
    /\ at_entry = <<>>
    /\ call = <<>>
    /\ snap_stage = <<>>
    /\ seen = <<>>

\* std::stoi throws out of loadInstructionsFromString; main catches nothing
\* there, so the program is terminated without output
LoadThrows ==
    /\ pc = "load"
    /\ loadInstructionsFromString(instruction_strings).threw
    /\ pc' = "terminated"
    /\ UNCHANGED <<call, iter, at_entry, instruction_strings, instructions, states, regs, available,
                   stats, cycle, completed, cycle_history, snapshot, output,
                   snap_stage, seen>>

\* EmptyCheck left out
EmptyCheckOmitted(loaded) == FALSE

\* the emptiness test main makes after loading
EmptyCheck(loaded) == loaded = <<>>

\* if (instructions.empty()): the error object is printed and main returns 1
LoadEmpty ==
    /\ pc = "load"
    /\ LET L == loadInstructionsFromString(instruction_strings)
       IN  /\ ~L.threw
           /\ EmptyCheck(L.instructions)
           /\ instructions' = L.instructions
    /\ output' = [error |-> "No instructions loaded from input."]
    /\ pc' = "returned 1"
    /\ UNCHANGED <<call, iter, at_entry, instruction_strings, states, regs, available, stats, cycle,
                   completed, cycle_history, snapshot, snap_stage, seen>>

\* instructions loaded: "Initialize simulation structures"
LoadOk ==
    /\ pc = "load"
    /\ LET L == loadInstructionsFromString(instruction_strings)
       IN  /\ ~L.threw
           /\ ~EmptyCheck(L.instructions)
           /\ instructions' = L.instructions
           /\ states' = [i \in 1..Len(L.instructions) |-> PipelineState]
           /\ snap_stage' = [i \in 1..Len(L.instructions) |-> IDLE]
           /\ seen' = [i \in 1..Len(L.instructions) |-> {}]
    /\ regs' = RegisterScoreboard
    /\ available' = capacity
    /\ stats' = Statistics
    /\ cycle' = 0
    /\ completed' = 0
    /\ cycle_history' = <<>>
    /\ pc' = "loop"
    /\ UNCHANGED <<call, iter, at_entry, instruction_strings, snapshot, output>>

MainNext ==
    \/ LoadThrows
    \/ LoadEmpty
    \/ LoadOk
    \/ Next

\* main from the input lines on
MainSpec == MainInit /\ [][MainNext]_vars

(***************************************************************************)
(* The parallel loops (#pragma omp parallel for) run iteration by          *)
(* iteration.  omp_set_num_threads(4) and schedule(dynamic) let the        *)
(* iterations of one loop run in any interleaving; the loop's implicit     *)
(* barrier ends it.  An iteration of the writeback loop is four steps:     *)
(* the stage test with clearBusy, release inside the critical section,     *)
(* the writes to the slot, and the atomic completed++.  The iterations of  *)
(* the other three loops touch only their own slot and are one step each.  *)
(***************************************************************************)
\* completed++ without the atomic: the value read at loop entry is written
RacyIncrement(current, entry_value) == entry_value + 1

\* #pragma omp atomic  completed++
AtomicIncrement(current, entry_value) == current + 1

ParallelPasses == {"writeback", "execute", "fetch", "account"}

AllDone == iter # <<>> /\ \A i \in Slots : iter[i] = "done"

\* a parallel loop is entered: the team starts on the iterations
Fork ==
    /\ pc \in ParallelPasses
    /\ iter = <<>>
    /\ iter' = [i \in Slots |-> "todo"]
    /\ at_entry' = [st |-> states, rg |-> regs, av |-> available,
                    done |-> completed]
    /\ UNCHANGED <<call, instruction_strings, instructions, states, regs, available,
                   stats, cycle, completed, pc, cycle_history, snapshot,
                   output, snap_stage, seen>>

\* if (states[i].current_stage == WRITEBACK) scoreboard.clearBusy(dest)
WritebackTest(i) ==
    /\ pc = "writeback"
    /\ iter # <<>>
    /\ iter[i] = "todo"
    /\ IF states[i].current_stage = WRITEBACK
       THEN /\ regs' = clearBusy(regs, instructions[i].dest)
            /\ iter' = [iter EXCEPT ![i] =
                           IF states[i].assigned_unit # ANY_UNIT
                           THEN "release" ELSE "retire"]
       ELSE /\ regs' = regs
            /\ iter' = [iter EXCEPT ![i] = "done"]
    /\ UNCHANGED <<call, instruction_strings, instructions, states, available,
                   stats, cycle, completed, pc, cycle_history, snapshot,
                   output, at_entry, snap_stage, seen>>

\* #pragma omp critical(ExecUnitRelease) { exec_units.release(assigned_unit); }
WritebackRelease(i) ==
    /\ pc = "writeback"
    /\ iter # <<>>
    /\ iter[i] = "release"
    /\ available' = release(available, states[i].assigned_unit)
    /\ iter' = [iter EXCEPT ![i] = "retire"]
    /\ UNCHANGED <<call, instruction_strings, instructions, states, regs, stats,
                   cycle, completed, pc, cycle_history, snapshot, output,
                   at_entry, snap_stage, seen>>

\* states[i].current_stage = COMPLETE; states[i].complete_cycle = cycle;
WritebackRetire(i) ==
    /\ pc = "writeback"
    /\ iter # <<>>
    /\ iter[i] = "retire"
    /\ states' = [states EXCEPT ![i].current_stage = COMPLETE,
                                ![i].complete_cycle = cycle]
    /\ iter' = [iter EXCEPT ![i] = "count"]
    /\ UNCHANGED <<call, instruction_strings, instructions, regs, available, stats,
                   cycle, completed, pc, cycle_history, snapshot, output,
                   at_entry, snap_stage, seen>>

\* #pragma omp atomic  completed++;
WritebackCount(i) ==
    /\ pc = "writeback"
    /\ iter # <<>>
    /\ iter[i] = "count"
    /\ completed' = AtomicIncrement(completed, at_entry.done)
    /\ iter' = [iter EXCEPT ![i] = "done"]
    /\ UNCHANGED <<call, instruction_strings, instructions, states, regs, available,
                   stats, cycle, pc, cycle_history, snapshot, output,
                   at_entry, snap_stage, seen>>

\* one iteration of the execute, fetch or accounting loop
SlotIter(pass, i) ==
    /\ pc = pass
    /\ iter # <<>>
    /\ iter[i] = "todo"
    /\ states' = CASE pass = "execute" -> ExecuteSlot(i, states)
                   [] pass = "fetch" -> FetchSlot(i, states)
                   [] pass = "account" -> AccountSlot(i, states)
    /\ iter' = [iter EXCEPT ![i] = "done"]
    /\ UNCHANGED <<call, instruction_strings, instructions, regs, available, stats,
                   cycle, completed, pc, cycle_history, snapshot, output,
                   at_entry, snap_stage, seen>>

ExecuteIter(i) == SlotIter("execute", i)
FetchIter(i) == SlotIter("fetch", i)
AccountIter(i) == SlotIter("account", i)

\* the end of the writeback, execute or fetch loop: on to the next pass
Join(pass, next) ==
    /\ pc = pass
    /\ AllDone
    /\ pc' = next
    /\ iter' = <<>>
    /\ at_entry' = <<>>
    /\ UNCHANGED <<call, instruction_strings, instructions, states, regs, available,
                   stats, cycle, completed, cycle_history, snapshot, output,
                   snap_stage, seen>>

WritebackJoin == Join("writeback", "execute")
ExecuteJoin == Join("execute", "issue")
FetchJoin == Join("fetch", "account")

\* the end of the accounting loop and
\* cycle_history.push_back(captureCycleState(...))
AccountJoin ==
    /\ pc = "account"
    /\ AllDone
    /\ snapshot' = captureCycleState(cycle, instructions, states)
    /\ cycle_history' = Append(cycle_history, snapshot'.cycle)
    /\ snap_stage' = [i \in Slots |-> states[i].current_stage]
    /\ seen' = [i \in Slots |-> seen[i] \cup {states[i].current_stage}]
    /\ pc' = "loop"
    /\ iter' = <<>>
    /\ at_entry' = <<>>
    /\ UNCHANGED <<call, instruction_strings, instructions, states, regs, available,
                   stats, cycle, completed, output>>

ParNext ==
    \/ LoopEnter
    \/ Fork
    \/ \E i \in Slots : WritebackTest(i)
    \/ \E i \in Slots : WritebackRelease(i)
    \/ \E i \in Slots : WritebackRetire(i)
    \/ \E i \in Slots : WritebackCount(i)
    \/ WritebackJoin
    \/ \E i \in Slots : ExecuteIter(i)
    \/ ExecuteJoin
    \/ IssuePass
    \/ DecodePass
    \/ \E i \in Slots : FetchIter(i)
    \/ FetchJoin
    \/ \E i \in Slots : AccountIter(i)
    \/ AccountJoin
    \/ LoopExit

\* the simulation loop with its parallel loops interleaved
ParSpec == ParInit /\ [][ParNext]_vars

(***************************************************************************)
(* The variant src/backend/pipeline.cpp.  Its simulation loop differs from *)
(* the one above in four places: exec_units.reset() at the top of every    *)
(* cycle, clearBusy resetting the whole scoreboard entry, release called   *)
(* for every retiring slot, and MAX_CYCLES = 100.  It records no           *)
(* cycle_history and prints the statistics as text.  Its execute, issue,   *)
(* decode and fetch passes read as the ones above; isAvailable and         *)
(* allocate index the map with operator[], which reads an absent unit as   *)
(* 0, the answer isAvailable gives for it above.                           *)
(***************************************************************************)
OrigMAX_CYCLES == 100

OrigLoopCond == completed < N /\ cycle < OrigMAX_CYCLES

\* ExecutionUnits::reset
reset(av) == capacity

\* RegisterScoreboard::clearBusy of the variant
OrigClearBusy(rg, reg) ==
    IF reg >= 0 /\ reg < NUM_REGISTERS
    THEN [rg EXCEPT ![reg] = [busy |-> FALSE, writer_id |-> -1,
                              ready_cycle |-> -1]]
    ELSE rg

\* ExecutionUnits::release of the variant; operator[] reads an absent unit
\* as 0 in both maps
OrigRelease(av, unit) ==
    IF unit \in DOMAIN av /\ av[unit] < capacity[unit]
    THEN [av EXCEPT ![unit] = @ + 1]
    ELSE av

OrigWritebackSlot(i, S) ==
    IF S.st[i].current_stage = WRITEBACK
    THEN [st |-> [S.st EXCEPT ![i].current_stage = COMPLETE,
                              ![i].complete_cycle = cycle],
          rg |-> OrigClearBusy(S.rg, instructions[i].dest),
          av |-> OrigRelease(S.av, S.st[i].assigned_unit),
          done |-> S.done + 1]
    ELSE S

RECURSIVE OrigWritebackFrom(_, _)
OrigWritebackFrom(i, S) ==
    IF i > N THEN S ELSE OrigWritebackFrom(i + 1, OrigWritebackSlot(i, S))

\* OrigLoopEnter without the call of reset
OrigLoopEnterNoReset ==
    /\ pc = "loop"
    /\ OrigLoopCond
    /\ cycle' = cycle + 1
    /\ pc' = "writeback"
    /\ UNCHANGED <<call, instruction_strings, instructions, states, regs, available,
                   stats, completed, cycle_history, snapshot, output, iter,
                   at_entry, snap_stage, seen>>

\* loop guard true; cycle++; exec_units.reset();
OrigLoopEnter ==
    /\ pc = "loop"
    /\ OrigLoopCond
    /\ cycle' = cycle + 1
    /\ available' = reset(available)
    /\ pc' = "writeback"
    /\ UNCHANGED <<call, instruction_strings, instructions, states, regs, stats,
                   completed, cycle_history, snapshot, output, iter, at_entry,
                   snap_stage, seen>>

OrigWritebackPass ==
    /\ pc = "writeback"
    /\ LET R == OrigWritebackFrom(1, [st |-> states, rg |-> regs,
                                      av |-> available, done |-> completed])
       IN  /\ states' = R.st
           /\ regs' = R.rg
           /\ available' = R.av
           /\ completed' = R.done
    /\ pc' = "execute"
    /\ UNCHANGED <<call, instruction_strings, instructions, stats, cycle,
                   cycle_history, snapshot, output, iter, at_entry,
                   snap_stage, seen>>

\* the accounting pass; the display that follows changes nothing
OrigAccountingPass ==
    /\ pc = "account"
    /\ states' = AccountFrom(1, states)
    /\ pc' = "loop"
    /\ UNCHANGED <<call, instruction_strings, instructions, regs, available, stats,
                   cycle, completed, cycle_history, snapshot, output, iter,
                   at_entry, snap_stage, seen>>

\* loop exit and "Calculate final statistics"
OrigLoopExit ==
    /\ pc = "loop"
    /\ ~OrigLoopCond
    /\ stats' = calculate([stats EXCEPT !.total_cycles = cycle,
                                        !.instructions_completed = completed])
    /\ pc' = "done"
    /\ UNCHANGED <<call, instruction_strings, instructions, states, regs, available,
                   cycle, completed, cycle_history, snapshot, output, iter,
                   at_entry, snap_stage, seen>>

OrigNext ==
    \/ OrigLoopEnter
    \/ OrigWritebackPass
    \/ ExecutePass
    \/ IssuePass
    \/ DecodePass
    \/ FetchPass
    \/ OrigAccountingPass
    \/ OrigLoopExit

\* the variant's main from the head of its loop on, running to completion
OrigSpec == LiveInit /\ [][OrigNext]_vars /\ WF_vars(OrigNext)

\* main runs to completion: no step of the loop blocks
(***************************************************************************)
(* The two classes on their own: any sequence of calls of the public       *)
(* methods of one RegisterScoreboard, and of one ExecutionUnits, with the  *)
(* arguments a caller can pass (register numbers outside the file, the     *)
(* unit ANY).  Nothing of main runs.                                       *)
(***************************************************************************)
MaxReady == 2       \* ready cycles and current cycles passed: 0..MaxReady
MaxWriter == 1      \* instruction ids passed: 0..MaxWriter

RegArgs == {-1, 0, NUM_REGISTERS - 1, NUM_REGISTERS}
CycleArgs == 0..MaxReady
WriterArgs == 0..MaxWriter
UnitArgs == Units \cup {ANY_UNIT}

MainIdle ==
    /\ instruction_strings = <<>>
    /\ instructions = <<>>
    /\ states = <<>>
    /\ stats = Statistics
    /\ cycle = 0
    /\ completed = 0
    /\ cycle_history = <<>>
    /\ snapshot = <<>>
    /\ output = <<>>
    /\ iter = <<>>
    /\ at_entry = <<>>
    /\ snap_stage = <<>>
    /\ seen = <<>>

mainVars == <<instruction_strings, instructions, states, stats, cycle,
              completed, pc, cycle_history, snapshot, output, iter, at_entry,
              snap_stage, seen>>

ScoreboardInit ==
    /\ MainIdle
    /\ pc = "scoreboard"
    /\ regs = RegisterScoreboard
    /\ available = capacity
    /\ call = <<>>

IsBusyCall ==
    \E reg \in RegArgs, c \in CycleArgs :
        /\ call' = [op |-> "isBusy", reg |-> reg, current_cycle |-> c,
                    ret |-> isBusy(regs, reg, c)]
        /\ UNCHANGED <<regs, available, mainVars>>

MarkBusyCall ==
    \E reg \in RegArgs, id \in WriterArgs, rc \in CycleArgs :
        /\ regs' = markBusy(regs, reg, id, rc)
        /\ call' = [op |-> "markBusy", reg |-> reg, instr_id |-> id,
                    ready_cycle |-> rc]
        /\ UNCHANGED <<available, mainVars>>

ClearBusyCall ==
    \E reg \in RegArgs :
        /\ regs' = clearBusy(regs, reg)
        /\ call' = [op |-> "clearBusy", reg |-> reg]
        /\ UNCHANGED <<available, mainVars>>

GetWriterCall ==
    \E reg \in RegArgs :
        /\ call' = [op |-> "getWriter", reg |-> reg,
                    ret |-> getWriter(regs, reg)]
        /\ UNCHANGED <<regs, available, mainVars>>

ScoreboardNext ==
    \/ IsBusyCall
    \/ MarkBusyCall
    \/ ClearBusyCall
    \/ GetWriterCall

ScoreboardSpec == ScoreboardInit /\ [][ScoreboardNext]_vars

UnitsInit ==
    /\ MainIdle
    /\ pc = "units"
    /\ regs = RegisterScoreboard
    /\ available = capacity
    /\ call = <<>>

IsAvailableCall ==
    \E unit \in UnitArgs :
        /\ call' = [op |-> "isAvailable", unit |-> unit,
                    ret |-> isAvailable(available, unit)]
        /\ UNCHANGED <<regs, available, mainVars>>

AllocateCall ==
    \E unit \in UnitArgs :
        /\ available' = allocate(available, unit)
        /\ call' = [op |-> "allocate", unit |-> unit,
                    ret |-> isAvailable(available, unit)]
        /\ UNCHANGED <<regs, mainVars>>

ReleaseCall ==
    \E unit \in UnitArgs :
        /\ available' = release(available, unit)
        /\ call' = [op |-> "release", unit |-> unit]
        /\ UNCHANGED <<regs, mainVars>>

UnitsNext ==
    \/ IsAvailableCall
    \/ AllocateCall
    \/ ReleaseCall

UnitsSpec == UnitsInit /\ [][UnitsNext]_vars

FairSpec == LiveInit /\ [][Next]_vars /\ WF_vars(Next)

Spec == Init /\ [][Next]_vars

(***************************************************************************)
(* Helpers of the properties.                                              *)
(***************************************************************************)
Stage(i) == states[i].current_stage
Unit(i) == getExecUnit(instructions[i].opcode)
Issued(i) == states[i].issue_cycle # -1
\* slots holding unit u: assigned to it and in EXECUTE or WRITEBACK
Holding(u) ==
    {i \in Slots : states[i].assigned_unit = u /\ Stage(i) \in {EXECUTE, WRITEBACK}}

(***************************************************************************)
(* C1: within one cycle the stage index of every slot grows by at most 1   *)
(* (snap_stage is the stage at the end of the previous cycle), and a slot  *)
(* that is COMPLETE was seen in each of FETCH, DECODE, ISSUE, EXECUTE and  *)
(* WRITEBACK in an earlier end-of-cycle snapshot.                          *)
(***************************************************************************)
C1_OneStagePerCycle ==
    \A i \in Slots :
        /\ Stage(i) - snap_stage[i] <= 1
        /\ Stage(i) = COMPLETE =>
              {FETCH, DECODE, ISSUE, EXECUTE, WRITEBACK} \subseteq seen[i]

\* a slot has just been retired by the writeback pass
C1_Witness ==
    \E i \in Slots :
        /\ Stage(i) = COMPLETE
        /\ snap_stage[i] = WRITEBACK
        /\ pc = "execute"

(***************************************************************************)
(* C2: between consecutive end-of-cycle states the stage index of a slot   *)
(* never decreases, and a slot that was COMPLETE stays COMPLETE.  Checked  *)
(* in every state against the previous end-of-cycle stage, so in           *)
(* particular just before the next snapshot is taken.                      *)
(***************************************************************************)
C2_StageMonotone ==
    \A i \in Slots :
        /\ Stage(i) >= snap_stage[i]
        /\ snap_stage[i] = COMPLETE => Stage(i) = COMPLETE

\* all passes of a cycle have run over a slot that was already COMPLETE while
\* another slot has just been stalled in DECODE
C2_Witness ==
    /\ pc = "account"
    /\ \E i \in Slots : snap_stage[i] = COMPLETE
    /\ \E j \in Slots : Stage(j) = DECODE /\ states[j].stalled

(***************************************************************************)
(* C3: for every unit u, the slots assigned to u that are in EXECUTE or    *)
(* WRITEBACK never outnumber capacity[u].                                  *)
(***************************************************************************)
C3_UnitCapacity ==
    \A u \in Units : Cardinality(Holding(u)) <= capacity[u]

\* end of a cycle in which a unit is full and another slot waits in ISSUE for it
C3_Witness ==
    /\ pc = "loop"
    /\ \E i \in Slots :
          /\ Stage(i) = ISSUE
          /\ Cardinality(Holding(Unit(i))) = capacity[Unit(i)]
          /\ Unit(i) = ALU_UNIT

\* instruction j has register r as src1 or src2
Reads(j, r) == instructions[j].src1 = r \/ instructions[j].src2 = r
\* slot i is the most recent instruction before j whose dest is r
LastWriter(i, j, r) ==
    /\ i < j
    /\ instructions[i].dest = r
    /\ ~\E k \in Slots : i < k /\ k < j /\ instructions[k].dest = r
\* slots with dest r that have issued and not retired
InFlightWriters(r) ==
    {i \in Slots : instructions[i].dest = r /\ Stage(i) \in {EXECUTE, WRITEBACK}}
Registers == 0..(NUM_REGISTERS - 1)

(***************************************************************************)
(* C4: RAW correctness.  If J reads register R, I is the most recent       *)
(* earlier instruction whose dest is R and both have issued, then          *)
(* J.issue_cycle >= I.issue_cycle + latency_of(I.opcode).                  *)
(***************************************************************************)
C4_RawCorrectness ==
    \A i \in Slots, j \in Slots, r \in Registers :
        (LastWriter(i, j, r) /\ Reads(j, r) /\ Issued(i) /\ Issued(j))
            => states[j].issue_cycle >=
                   states[i].issue_cycle + getLatency(instructions[i].opcode)

(***************************************************************************)
(* C5: a program in which an instruction reads the dest of an earlier      *)
(* instruction (which is in flight when the reader is decoded) ends with   *)
(* rawHazards >= 1, and the reader issues at least one cycle after the     *)
(* writer.                                                                 *)
(***************************************************************************)
C5_RawStall ==
    pc = "done" =>
        \A i \in Slots, j \in Slots, r \in Registers :
            (LastWriter(i, j, r) /\ Reads(j, r)) =>
                /\ stats.raw_hazards >= 1
                /\ (Issued(i) /\ Issued(j)) =>
                      states[j].issue_cycle >= states[i].issue_cycle + 1

(***************************************************************************)
(* C6: a program with two data-independent instructions that need the      *)
(* same unit of capacity 1 ends with structuralHazards >= 1.               *)
(***************************************************************************)
C6_StructuralStall ==
    pc = "done" =>
        \A i \in Slots, j \in Slots :
            ( /\ i < j
              /\ Unit(i) = Unit(j)
              /\ Unit(i) \in Units
              /\ capacity[Unit(i)] = 1
              /\ ~Reads(j, instructions[i].dest) )
                => stats.structural_hazards >= 1

(***************************************************************************)
(* C7: latency floor.  Every COMPLETE slot has issue_cycle >= 1 and        *)
(* complete_cycle - issue_cycle >= latency_of(opcode).                     *)
(***************************************************************************)
C7_LatencyFloor ==
    \A i \in Slots :
        Stage(i) = COMPLETE =>
            /\ states[i].issue_cycle >= 1
            /\ states[i].complete_cycle - states[i].issue_cycle
                   >= getLatency(instructions[i].opcode)

\* a multi-cycle instruction has retired
C7_Witness ==
    \E i \in Slots : Stage(i) = COMPLETE /\ instructions[i].opcode = "DIV"

(***************************************************************************)
(* C8 (as claimed): at the end of every cycle, register r is marked busy   *)
(* exactly when one slot whose dest is r is in ISSUE..WRITEBACK, and there *)
(* is never more than one such slot.                                       *)
(***************************************************************************)
C8_ScoreboardAgreement ==
    pc = "loop" =>
        \A r \in Registers :
            LET inflight == {i \in Slots : /\ instructions[i].dest = r
                                           /\ Stage(i) \in ISSUE..WRITEBACK}
            IN  /\ regs[r].busy <=> Cardinality(inflight) = 1
                /\ Cardinality(inflight) <= 1

(***************************************************************************)
(* C8 (amended): whenever register r is marked busy, the recorded writer   *)
(* is a slot whose dest is r, that has issued and not retired (EXECUTE or  *)
(* WRITEBACK), and ready_cycle is its issue cycle plus its latency.        *)
(***************************************************************************)
C8_BusyImpliesWriterInFlight ==
    \A r \in Registers :
        regs[r].busy =>
            LET w == regs[r].writer_id
            IN  /\ w \in InFlightWriters(r)
                /\ regs[r].ready_cycle =
                       states[w].issue_cycle + getLatency(instructions[w].opcode)

\* end of a cycle with a busy register that two issued slots are writing
C8_Witness ==
    /\ pc = "loop"
    /\ \E r \in Registers : regs[r].busy /\ Cardinality(InFlightWriters(r)) = 2

(***************************************************************************)
(* C9: slots that need the same unit issue in program order: of two that   *)
(* have issued the earlier has the smaller or equal issue_cycle, and while *)
(* the earlier one waits in ISSUE the later one has not issued.            *)
(***************************************************************************)
C9_IssueOrder ==
    \A i \in Slots, j \in Slots :
        (i < j /\ Unit(i) = Unit(j)) =>
            /\ (Issued(i) /\ Issued(j)) =>
                  states[i].issue_cycle <= states[j].issue_cycle
            /\ Stage(i) = ISSUE => ~Issued(j)

\* two slots sharing a unit of which the later one had to wait
C9_Witness ==
    \E i \in Slots, j \in Slots :
        /\ i < j
        /\ Unit(i) = Unit(j)
        /\ Issued(i)
        /\ Issued(j)
        /\ states[i].issue_cycle < states[j].issue_cycle

(***************************************************************************)
(* C10: the loop terminates; on exit 1 <= cycle <= MAX_CYCLES and either   *)
(* every instruction is COMPLETE (completed = N) or cycle = MAX_CYCLES;    *)
(* and no cycle is started when every slot was COMPLETE at the end of the  *)
(* previous one.                                                           *)
(***************************************************************************)
C10_Termination ==
    /\ <>(pc = "done")
    /\ [](pc = "done" =>
            /\ 1 <= cycle
            /\ cycle <= MAX_CYCLES
            /\ completed = N \/ cycle = MAX_CYCLES
            /\ completed = Cardinality({i \in Slots : Stage(i) = COMPLETE})
            /\ stats.total_cycles = cycle)
    /\ [](pc \notin {"loop", "done"} =>
            \E i \in Slots : snap_stage[i] # COMPLETE)

\* the loop was left at the cycle cap with an instruction not retired
C10_Witness ==
    /\ pc = "done"
    /\ cycle = MAX_CYCLES
    /\ completed < N

(***************************************************************************)
(* C11: timeout returns a partial result.  When the loop has stopped with  *)
(* cycle = MAX_CYCLES and completed < number of instructions, the result   *)
(* is printed with instructionsCompleted = the number of slots in          *)
(* COMPLETE, and every slot not in COMPLETE has complete_cycle = -1 and    *)
(* the stage it held in the snapshot of the last cycle.                    *)
(***************************************************************************)
TimedOut == pc = "done" /\ cycle = MAX_CYCLES /\ completed < N

C11_TimeoutPartialResult ==
    TimedOut =>
        /\ DOMAIN output = {"result"}
        /\ output.result.stats.totalCycles = MAX_CYCLES
        /\ output.result.stats.instructionsCompleted =
               Cardinality({i \in Slots : Stage(i) = COMPLETE})
        /\ \A i \in Slots :
               Stage(i) # COMPLETE =>
                   /\ states[i].complete_cycle = -1
                   /\ Stage(i) = snap_stage[i]
                   /\ \E k \in DOMAIN snapshot.stages[stageToString(Stage(i))] :
                          snapshot.stages[stageToString(Stage(i))][k] =
                              instructions[i].original_string

\* a timed-out run in which one instruction completed and another did not
C11_Witness ==
    /\ TimedOut
    /\ \E i, j \in Slots : Stage(i) = COMPLETE /\ Stage(j) = DECODE

(***************************************************************************)
(* C12: exactly one snapshot is recorded per simulated cycle: at the end   *)
(* of cycle k cycle_history holds k snapshots, the j-th carrying cycle     *)
(* number j, and at the end len(cycles) = stats.totalCycles.               *)
(***************************************************************************)
C12_SnapshotCount ==
    /\ Len(cycle_history) = IF pc \in {"loop", "done"} THEN cycle ELSE cycle - 1
    /\ pc \in {"loop", "done"} =>
           cycle_history = [k \in 1..Len(cycle_history) |-> k]
    /\ cycle_history # <<>> => snapshot.cycle = Len(cycle_history)
    /\ pc = "done" =>
           /\ Len(output.result.cycles) = output.result.stats.totalCycles
           /\ output.result.cycles = cycle_history

\* a finished run of six cycles with its six snapshots
C12_Witness ==
    /\ pc = "done"
    /\ output.result.stats.totalCycles = 6
    /\ Len(output.result.cycles) = 6
    /\ output.result.cycles[6] = 6

(***************************************************************************)
(* Helpers: the program that is run, by the text of its lines.             *)
(***************************************************************************)
Texts(ls) == [k \in DOMAIN ls |-> ls[k].text]
Running(texts) == Texts(instruction_strings) = texts
Result == output.result.stats

(***************************************************************************)
(* C13 as stated: for ADD R1 R2 R3; SUB R4 R5 R6 both instructions         *)
(* complete, instructionsCompleted = 2, rawHazards = 0,                    *)
(* structuralHazards = 0 and totalCycles = 5 (ipc 2/5).                    *)
(***************************************************************************)
TwoAluOps == Running(<<"ADD R1 R2 R3", "SUB R4 R5 R6">>)

C13_TwoAluOpsFiveCycles ==
    (TwoAluOps /\ pc = "done") =>
        /\ \A i \in Slots : Stage(i) = COMPLETE
        /\ Result.instructionsCompleted = 2
        /\ Result.rawHazards = 0
        /\ Result.structuralHazards = 0
        /\ Result.totalCycles = 5
        /\ Result.ipc = <<2, 5>>

(***************************************************************************)
(* C13 amended: for ADD R1 R2 R3; SUB R4 R5 R6 both instructions complete, *)
(* instructionsCompleted = 2, rawHazards = 0, structuralHazards = 0 and    *)
(* totalCycles = 6 (ipc 2/6): both issue in cycle 4 and are COMPLETE at    *)
(* cycle 6, and the run is never at pc = "done" in any other cycle.        *)
(***************************************************************************)
C13_TwoAluOpsSixCycles ==
    /\ (TwoAluOps /\ pc = "done") =>
           /\ \A i \in Slots :
                  /\ Stage(i) = COMPLETE
                  /\ states[i].issue_cycle = 4
                  /\ states[i].complete_cycle = 6
           /\ Result.instructionsCompleted = 2
           /\ Result.rawHazards = 0
           /\ Result.structuralHazards = 0
           /\ Result.totalStalls = 0
           /\ Result.totalCycles = 6
           /\ Result.ipc = <<2, 6>>
    /\ (TwoAluOps /\ cycle < 6) => \E i \in Slots : Stage(i) # COMPLETE

C13_Witness ==
    /\ TwoAluOps
    /\ pc = "done"
    /\ Result.instructionsCompleted = 2

(***************************************************************************)
(* C14 as stated: a lone instruction of latency L that has completed has   *)
(* complete_cycle = issue_cycle + L (DIV R1 R2 R3: issue_cycle + 8), and   *)
(* for the lone DIV totalCycles = issue_cycle + 9.                         *)
(***************************************************************************)
Lone == N = 1 /\ Len(instruction_strings) = 1
LoneDiv == Running(<<"DIV R1 R2 R3">>)

C14_LoneLatency ==
    /\ (Lone /\ Stage(1) = COMPLETE) =>
           states[1].complete_cycle =
               states[1].issue_cycle + getLatency(instructions[1].opcode)
    /\ (LoneDiv /\ pc = "done") =>
           /\ states[1].complete_cycle = states[1].issue_cycle + 8
           /\ Result.totalCycles = states[1].issue_cycle + 9

(***************************************************************************)
(* C14 amended: a lone instruction of latency L that has completed has     *)
(* complete_cycle = issue_cycle + L + 1 and the run ends in that cycle;    *)
(* for the lone DIV R1 R2 R3 complete_cycle = totalCycles =                *)
(* issue_cycle + 9 (ipc 1/totalCycles).                                    *)
(***************************************************************************)
C14_LoneLatencyPlusOne ==
    /\ (Lone /\ Stage(1) = COMPLETE) =>
           states[1].complete_cycle =
               states[1].issue_cycle + getLatency(instructions[1].opcode) + 1
    /\ (Lone /\ Stage(1) = COMPLETE /\ pc = "done") =>
           /\ Result.totalCycles = states[1].complete_cycle
           /\ Result.ipc = <<1, Result.totalCycles>>
    /\ (LoneDiv /\ pc = "done") =>
           /\ Stage(1) = COMPLETE
           /\ states[1].complete_cycle = states[1].issue_cycle + 9
           /\ Result.totalCycles = states[1].issue_cycle + 9

C14_Witness ==
    /\ LoneDiv
    /\ pc = "done"
    /\ Stage(1) = COMPLETE
    /\ states[1].issue_cycle = 4

(***************************************************************************)
(* C15: a program of a single NOP completes in the minimum pipeline depth  *)
(* (the totalCycles of a lone un-stalled latency-1 instruction, which is   *)
(* 6 cycles here) with totalStalls = rawHazards = structuralHazards = 0.   *)
(***************************************************************************)
LoneNop == Running(<<"NOP">>)

C15_LoneNopCompletes ==
    (LoneNop /\ pc = "done") =>
        /\ Stage(1) = COMPLETE
        /\ Result.instructionsCompleted = 1
        /\ Result.totalCycles = 6
        /\ Result.totalStalls = 0
        /\ Result.rawHazards = 0
        /\ Result.structuralHazards = 0

(***************************************************************************)
(* C16: STORE takes part in the scoreboard like a register write.  The     *)
(* step in which a STORE issues (ISSUE -> EXECUTE) leaves its dest         *)
(* register busy with writer_id = the STORE's id and ready_cycle = the     *)
(* issue cycle + 2; the writeback pass that retires the STORE (WRITEBACK   *)
(* -> COMPLETE) leaves that register not busy.                             *)
(***************************************************************************)
IsStore(i) == instructions[i].opcode = "STORE"

C16_StoreScoreboard ==
    [][\A i \in Slots :
          IsStore(i) =>
              /\ (Stage(i) = ISSUE /\ states'[i].current_stage = EXECUTE) =>
                     /\ ValidReg(instructions[i].dest)
                     /\ states'[i].issue_cycle = cycle
                     /\ regs'[instructions[i].dest] =
                            [busy |-> TRUE, writer_id |-> instructions[i].id,
                             ready_cycle |-> cycle + 2]
              /\ (Stage(i) = WRITEBACK /\ states'[i].current_stage = COMPLETE) =>
                     /\ regs[instructions[i].dest].busy
                     /\ ~regs'[instructions[i].dest].busy]_vars

\* a STORE has issued, marked its dest, and been retired: the register
\* still names it as writer with ready_cycle = issue_cycle + 2, not busy
C16_Witness ==
    \E i \in Slots :
        /\ IsStore(i)
        /\ Stage(i) = COMPLETE
        /\ regs[instructions[i].dest] =
               [busy |-> FALSE, writer_id |-> instructions[i].id,
                ready_cycle |-> states[i].issue_cycle + 2]

(***************************************************************************)
(* C17: empty input.  If the input is the empty list or holds only empty,  *)
(* blank and # comment lines, main prints the error object and returns:    *)
(* the loop is never entered, no cycle is simulated and no stats or        *)
(* snapshots are printed.                                                  *)
(***************************************************************************)
NoInstructionLine(line) == line.first \in {"", "#"} \/ line.toks = <<>>
EmptyInput == \A k \in DOMAIN instruction_strings :
                  NoInstructionLine(instruction_strings[k])

C17_EmptyInput ==
    EmptyInput =>
        /\ pc \in {"load", "returned 1"}
        /\ cycle = 0
        /\ cycle_history = <<>>
        /\ stats = Statistics
        /\ pc = "load" => output = <<>>
        /\ pc = "returned 1" =>
               /\ DOMAIN output = {"error"}
               /\ output.error = "No instructions loaded from input."

\* main has returned with the error on a comment line and a blank line
C17_Witness ==
    /\ pc = "returned 1"
    /\ Texts(instruction_strings) = <<"# setup", "  ">>
    /\ DOMAIN output = {"error"}

(***************************************************************************)
(* C18: a line that matches no instruction grammar (its first token is not *)
(* one of the 13 opcodes, or a branch lacks its numeric target) is         *)
(* silently skipped and produces no instruction; the instructions of the   *)
(* remaining lines get ids 1, 2, ..., n in input order.                    *)
(***************************************************************************)
MatchesGrammar(line) ==
    /\ ~NoInstructionLine(line)
    /\ Tok(line.toks, 1) \in Opcodes
    /\ Tok(line.toks, 1) \in {"BEQ", "BNE"} => ~StoiThrows(Tok(line.toks, 4))
    /\ Tok(line.toks, 1) = "JMP" => ~StoiThrows(Tok(line.toks, 2))

C18_UnparseableSkipped ==
    pc # "load" =>
        LET good == SelectSeq(instruction_strings, MatchesGrammar)
        IN  /\ pc # "terminated"
            /\ Len(instructions) = Len(good)
            /\ \A k \in DOMAIN instructions :
                   /\ instructions[k].id = k
                   /\ k <= Len(good) =>
                          instructions[k].original_string = good[k].text

(***************************************************************************)
(* C19: snapshot content.  In the snapshot of every cycle each slot in     *)
(* FETCH, DECODE, ISSUE, EXECUTE or WRITEBACK appears exactly once, in the *)
(* list of its stage, in slot order; slots in IDLE or COMPLETE appear in   *)
(* no list; the stalls list holds exactly the stalled slots, in slot       *)
(* order, each with its stall_reason.                                      *)
(***************************************************************************)
SlotSeq == [i \in Slots |-> i]
InStage(name) == SelectSeq(SlotSeq, LAMBDA i : stageToString(Stage(i)) = name)
StalledSlots == SelectSeq(SlotSeq, LAMBDA i : states[i].stalled)
SnapshotTaken == pc \in {"loop", "done"} /\ cycle_history # <<>>

C19_SnapshotContent ==
    SnapshotTaken =>
        /\ DOMAIN snapshot.stages = StageNames
        /\ \A name \in StageNames :
               snapshot.stages[name] =
                   [k \in 1..Len(InStage(name)) |->
                       instructions[InStage(name)[k]].original_string]
        /\ snapshot.stalls =
               [k \in 1..Len(StalledSlots) |->
                   [instruction |-> instructions[StalledSlots[k]].original_string,
                    reason |-> states[StalledSlots[k]].stall_reason]]

\* a snapshot with one slot omitted (COMPLETE) and two stalled slots, of
\* different text, listed in DECODE in slot order
C19_Witness ==
    /\ SnapshotTaken
    /\ N = 2
    /\ snapshot.stages["DECODE"] = <<"NOP R4 R1 R3", "NOP">>
    /\ Len(snapshot.stalls) = 2
    /\ snapshot.stalls[1].instruction = "NOP R4 R1 R3"

(***************************************************************************)
(* C20: hazard detector priority and counting.  In the decode pass, for    *)
(* every DECODE slot: RAW on src1 is reported first, RAW on src2 only if   *)
(* src1 is not busy, a structural hazard only if there is no RAW; a slot   *)
(* with a hazard stays in DECODE with stalled = TRUE and adds 1 to         *)
(* total_stalls and to exactly one of raw_hazards / structural_hazards     *)
(* (RAW wins); a slot without hazard goes to ISSUE, changes no counter and *)
(* has stalled and stall_reason cleared.  total_stalls = raw_hazards +     *)
(* structural_hazards in every state.                                      *)
(***************************************************************************)
Raw1(i) == isBusy(regs, instructions[i].src1, cycle)
Raw2(i) == ~Raw1(i) /\ isBusy(regs, instructions[i].src2, cycle)
Structural(i) == ~Raw1(i) /\ ~Raw2(i) /\ ~isAvailable(available, Unit(i))
Decoding == {i \in Slots : Stage(i) = DECODE}

C20_DecodeStep ==
    pc = "decode" =>
        /\ \A i \in Decoding :
               /\ Raw1(i) =>
                      /\ states'[i].current_stage = DECODE
                      /\ states'[i].stalled
                      /\ states'[i].stall_reason =
                             <<"RAW on R", instructions[i].src1, " (writer: I",
                               regs[instructions[i].src1].writer_id, ")">>
               /\ Raw2(i) =>
                      /\ states'[i].current_stage = DECODE
                      /\ states'[i].stalled
                      /\ states'[i].stall_reason =
                             <<"RAW on R", instructions[i].src2, " (writer: I",
                               regs[instructions[i].src2].writer_id, ")">>
               /\ Structural(i) =>
                      /\ states'[i].current_stage = DECODE
                      /\ states'[i].stalled
                      /\ states'[i].stall_reason =
                             <<"Structural - ", Unit(i), " busy">>
               /\ ~(Raw1(i) \/ Raw2(i) \/ Structural(i)) =>
                      /\ states'[i].current_stage = ISSUE
                      /\ ~states'[i].stalled
                      /\ states'[i].stall_reason = <<>>
        /\ stats'.raw_hazards = stats.raw_hazards +
               Cardinality({i \in Decoding : Raw1(i) \/ Raw2(i)})
        /\ stats'.structural_hazards = stats.structural_hazards +
               Cardinality({i \in Decoding : Structural(i)})
        /\ stats'.total_stalls = stats.total_stalls +
               Cardinality({i \in Decoding :
                               Raw1(i) \/ Raw2(i) \/ Structural(i)})

C20_HazardCounting ==
    /\ [](stats.total_stalls = stats.raw_hazards + stats.structural_hazards)
    /\ [][C20_DecodeStep]_vars

\* a slot stalled on RAW through src2 while its unit is unavailable too,
\* with one RAW hazard and structural hazards counted so far
C20_Witness ==
    /\ pc = "fetch"
    /\ \E i \in Slots :
           /\ Stage(i) = DECODE
           /\ states[i].stalled
           /\ states[i].stall_reason = <<"RAW on R", 3, " (writer: I", 1, ")">>
           /\ instructions[i].src2 = 3
           /\ ~isAvailable(available, Unit(i))
    /\ stats.raw_hazards = 1
    /\ stats.structural_hazards = 1
    /\ stats.total_stalls = 2

(***************************************************************************)
(* C21: pass equivalence under the parallel sweeps.  For the writeback,    *)
(* execute, fetch and accounting loops, whatever the interleaving of the   *)
(* iterations, when all iterations are done the slots, the scoreboard,     *)
(* the unit availability and completed are what processing the slots       *)
(* sequentially in index order from the state at loop entry gives.         *)
(***************************************************************************)
Shared == [st |-> states, rg |-> regs, av |-> available, done |-> completed]

C21_ParallelSweeps ==
    AllDone =>
        CASE pc = "writeback" -> Shared = WritebackFrom(1, at_entry)
          [] pc = "execute" ->
                Shared = [at_entry EXCEPT !.st = ExecuteFrom(1, at_entry.st)]
          [] pc = "fetch" ->
                Shared = [at_entry EXCEPT !.st = FetchFrom(1, at_entry.st)]
          [] pc = "account" ->
                Shared = [at_entry EXCEPT !.st = AccountFrom(1, at_entry.st)]

\* a writeback loop in which two iterations retired their slots, released
\* the two ALUs and counted
C21_Witness ==
    /\ AllDone
    /\ pc = "writeback"
    /\ completed = at_entry.done + 2
    /\ at_entry.av[ALU_UNIT] = 0
    /\ available[ALU_UNIT] = 2

(***************************************************************************)
(* C22: in the variant that calls exec_units.reset() at the top of every   *)
(* cycle, every unit is free again when a cycle's passes start, whatever   *)
(* is executing, and the capacity property is violated: the run of         *)
(* FMUL R1 R2 R3; FADD R4 R5 R6 reaches an end-of-cycle state in which     *)
(* both slots are in EXECUTE with assigned_unit FPU, of capacity 1.        *)
(***************************************************************************)
OverCapacity(u) == Cardinality(Holding(u)) > capacity[u]
TwoFpuOps == Running(<<"FMUL R1 R2 R3", "FADD R4 R5 R6">>)

C22_ResetBreaksCapacity ==
    /\ [](pc = "writeback" => available = capacity)
    /\ (TwoFpuOps /\ cycle = 0) ~>
           (/\ pc = "loop"
            /\ OverCapacity(FPU_UNIT)
            /\ \A i \in Slots : Stage(i) = EXECUTE)

\* the end of a cycle with both FPU instructions in EXECUTE
C22_Witness ==
    /\ TwoFpuOps
    /\ pc = "loop"
    /\ Holding(FPU_UNIT) = {1, 2}
    /\ Stage(1) = EXECUTE
    /\ Stage(2) = EXECUTE

(***************************************************************************)
(* C23: a failed issue is a no-op.  In the issue pass a slot in ISSUE      *)
(* that does not get its unit keeps its whole state (stage ISSUE,          *)
(* assigned_unit, cycles_in_stage, issue_cycle, stalled, stall_reason);    *)
(* no counter changes; the unit availability and the scoreboard change     *)
(* only by what the slots that did issue allocated and marked.             *)
(***************************************************************************)
FailedIssue == {i \in Slots : Stage(i) = ISSUE /\ states'[i].current_stage = ISSUE}
Issuing == {i \in Slots : Stage(i) = ISSUE /\ states'[i].current_stage = EXECUTE}

C23_IssueStep ==
    pc = "issue" =>
        /\ \A i \in FailedIssue :
               /\ states'[i] = states[i]
               /\ ~isAvailable(available', Unit(i))
        /\ stats' = stats
        /\ \A u \in Units :
               available'[u] =
                   available[u] - Cardinality({i \in Issuing : Unit(i) = u})
        /\ \A r \in Registers :
               regs'[r] # regs[r] => \E i \in Issuing : instructions[i].dest = r
        /\ Issuing = {} => (regs' = regs /\ available' = available)

C23_FailedIssueNoOp == [][C23_IssueStep]_vars

\* after the issue pass, a slot that was in ISSUE at the end of the previous
\* cycle is still there, unflagged, with no unit and no issue cycle
C23_Witness ==
    /\ pc = "decode"
    /\ \E i \in Slots :
           /\ Stage(i) = ISSUE
           /\ snap_stage[i] = ISSUE
           /\ ~states[i].stalled
           /\ states[i].assigned_unit = ANY_UNIT
           /\ states[i].issue_cycle = -1
           /\ available[Unit(i)] = 0

(***************************************************************************)
(* C26: all slots are fetched together: every slot is in FETCH at the end  *)
(* of cycle 1 and in DECODE at the end of cycle 2.  For a program without  *)
(* NOP no slot is in DECODE after cycle 3, every slot is in ISSUE at the   *)
(* end of cycle 3, no slot is ever marked stalled and totalStalls,         *)
(* rawHazards and structuralHazards stay 0, whatever the dependencies and  *)
(* the unit contention.                                                    *)
(***************************************************************************)
EndOfCycle(c) == pc = "loop" /\ cycle = c

C26_AllFetchedTogether ==
    /\ EndOfCycle(1) => \A i \in Slots : Stage(i) = FETCH
    /\ EndOfCycle(2) => \A i \in Slots : Stage(i) = DECODE
    /\ ~HasNop(instructions) =>
           /\ EndOfCycle(3) => \A i \in Slots : Stage(i) = ISSUE
           /\ \A i \in Slots :
                  /\ Stage(i) = DECODE => cycle <= 3
                  /\ ~states[i].stalled
                  /\ states[i].stall_reason = <<>>
           /\ stats.total_stalls = 0
           /\ stats.raw_hazards = 0
           /\ stats.structural_hazards = 0
           /\ pc = "done" =>
                  /\ Result.totalStalls = 0
                  /\ Result.rawHazards = 0
                  /\ Result.structuralHazards = 0

\* a finished run with a RAW dependency (the STORE reads R1, which the
\* LOAD writes) and contention (both need the one memory unit, the STORE
\* waited for it) that counted no stall
C26_Witness ==
    /\ Running(<<"LOAD R1 R2", "STORE R3 R1">>)
    /\ pc = "done"
    /\ Reads(2, instructions[1].dest)
    /\ states[2].issue_cycle > states[1].issue_cycle
    /\ Result.totalStalls = 0

(***************************************************************************)
(* C27: a NOP never leaves DECODE.  From cycle 3 on every decode pass      *)
(* reports a hazard for it; a program containing a NOP runs until cycle =  *)
(* MAX_CYCLES and ends with instructionsCompleted < number of              *)
(* instructions; for a lone NOP without operands totalCycles = MAX_CYCLES, *)
(* instructionsCompleted = 0 and structuralHazards = totalStalls =         *)
(* MAX_CYCLES - 2.                                                         *)
(***************************************************************************)
IsNop(i) == instructions[i].opcode = "NOP"

C27_NopNeverLeavesDecode ==
    /\ \A i \in Slots :
           IsNop(i) =>
               /\ Stage(i) \in {IDLE, FETCH, DECODE}
               /\ ~Issued(i)
               /\ (cycle >= 3 /\ pc \in {"fetch", "account", "loop", "done"}) =>
                      /\ Stage(i) = DECODE
                      /\ states[i].stalled
                      /\ states[i].stall_reason # <<>>
    /\ (pc \in {"fetch", "account", "loop", "done"} /\ cycle >= 2) =>
           stats.total_stalls >=
               (cycle - 2) * Cardinality({i \in Slots : IsNop(i)})
    /\ (HasNop(instructions) /\ pc = "done") =>
           /\ cycle = MAX_CYCLES
           /\ Result.totalCycles = MAX_CYCLES
           /\ Result.instructionsCompleted < N
    /\ (LoneNop /\ pc = "done") =>
           /\ Result.totalCycles = MAX_CYCLES
           /\ Result.instructionsCompleted = 0
           /\ Result.structuralHazards = MAX_CYCLES - 2
           /\ Result.totalStalls = MAX_CYCLES - 2
           /\ Result.rawHazards = 0

\* the lone NOP's run has ended at MAX_CYCLES with the slot in DECODE
C27_Witness ==
    /\ LoneNop
    /\ pc = "done"
    /\ Stage(1) = DECODE
    /\ Result.structuralHazards = 498

(***************************************************************************)
(* C28: resource accounting.  At the end of every cycle and for every      *)
(* unit u, available[u] + the number of slots holding u (assigned_unit =   *)
(* u, in EXECUTE or WRITEBACK) = capacity[u]; every slot in EXECUTE,       *)
(* WRITEBACK or COMPLETE has assigned_unit = the unit of its opcode, not   *)
(* ANY; every slot in an earlier stage has assigned_unit = ANY.            *)
(***************************************************************************)
C28_ResourceAccounting ==
    /\ pc \in {"loop", "done"} =>
           \A u \in Units :
               available[u] + Cardinality(Holding(u)) = capacity[u]
    /\ \A i \in Slots :
           IF Stage(i) \in {EXECUTE, WRITEBACK, COMPLETE}
           THEN states[i].assigned_unit = Unit(i) /\ Unit(i) # ANY_UNIT
           ELSE states[i].assigned_unit = ANY_UNIT

\* the end of a cycle in which the FPU, given back by the retired FMUL, is
\* held by the FADD
C28_Witness ==
    /\ TwoFpuOps
    /\ pc = "loop"
    /\ Stage(1) = COMPLETE
    /\ Holding(FPU_UNIT) = {2}
    /\ available[FPU_UNIT] = 0

(***************************************************************************)
(* C29: exact retirement timing.  Every slot in COMPLETE has               *)
(* complete_cycle = issue_cycle + latency + 1; a slot in WRITEBACK at the  *)
(* end of a cycle entered it in cycle issue_cycle + latency; a slot that   *)
(* waited in ISSUE for a unit (issue_cycle after cycle 4) issued in the    *)
(* very cycle in which a holder of that unit was retired.                  *)
(***************************************************************************)
C29_RetirementTiming ==
    \A i \in Slots :
        /\ Stage(i) = COMPLETE =>
               states[i].complete_cycle =
                   states[i].issue_cycle + getLatency(instructions[i].opcode) + 1
        /\ (Stage(i) = WRITEBACK /\ pc = "loop") =>
               cycle = states[i].issue_cycle + getLatency(instructions[i].opcode)
        /\ (Issued(i) /\ states[i].issue_cycle > 4) =>
               \E h \in Slots \ {i} :
                   /\ Unit(h) = Unit(i)
                   /\ Stage(h) = COMPLETE
                   /\ states[h].complete_cycle = states[i].issue_cycle

\* the FADD issued in cycle 10, the cycle in which the FMUL was retired
C29_Witness ==
    /\ TwoFpuOps
    /\ Stage(1) = COMPLETE
    /\ states[1].complete_cycle = 10
    /\ states[2].issue_cycle = 10
    /\ Stage(2) = COMPLETE

(***************************************************************************)
(* C30: the stalled flag is only true for a slot in DECODE.  At the end of *)
(* every cycle stalled implies stage DECODE and a non-empty stall_reason,  *)
(* so every entry of the snapshot's stalls list names an instruction       *)
(* listed under DECODE in that snapshot, with a non-empty reason.          *)
(***************************************************************************)
C30_StalledOnlyInDecode ==
    /\ pc \in {"loop", "done"} =>
           \A i \in Slots :
               states[i].stalled =>
                   Stage(i) = DECODE /\ states[i].stall_reason # <<>>
    /\ SnapshotTaken =>
           \A k \in DOMAIN snapshot.stalls :
               /\ snapshot.stalls[k].reason # <<>>
               /\ \E d \in DOMAIN snapshot.stages["DECODE"] :
                      snapshot.stages["DECODE"][d] = snapshot.stalls[k].instruction

\* a snapshot with a stalled NOP listed under DECODE
C30_Witness ==
    /\ SnapshotTaken
    /\ states[1].stalled
    /\ snapshot.stalls =
           <<[instruction |-> "NOP", reason |-> <<"Structural - ", "ANY", " busy">>]>>
    /\ snapshot.stages["DECODE"] = <<"NOP">>

(***************************************************************************)
(* C24: scoreboard query semantics.  isBusy(r, c) returns true exactly     *)
(* when 0 <= r < 32, the entry's busy flag is set and its ready_cycle > c  *)
(* (strictly: with ready_cycle = c the register is not busy although the   *)
(* flag is still set).  For r < 0 or r >= 32 isBusy returns false,         *)
(* getWriter returns -1 and markBusy and clearBusy change nothing.  For a  *)
(* valid r markBusy writes the whole entry, clearBusy only drops the flag  *)
(* and getWriter returns the entry's writer.                               *)
(***************************************************************************)
OutOfFile(reg) == reg < 0 \/ reg >= 32
Called(op) == call # <<>> /\ call.op = op

C24_Returns ==
    /\ Called("isBusy") =>
           call.ret = (/\ 0 <= call.reg
                       /\ call.reg < 32
                       /\ regs[call.reg].busy
                       /\ regs[call.reg].ready_cycle > call.current_cycle)
    /\ (Called("isBusy") /\ OutOfFile(call.reg)) => call.ret = FALSE
    /\ Called("getWriter") =>
           call.ret = IF OutOfFile(call.reg) THEN -1
                      ELSE regs[call.reg].writer_id
    /\ (Called("markBusy") /\ ~OutOfFile(call.reg)) =>
           regs[call.reg] = [busy |-> TRUE, writer_id |-> call.instr_id,
                             ready_cycle |-> call.ready_cycle]
    /\ (Called("clearBusy") /\ ~OutOfFile(call.reg)) => ~regs[call.reg].busy
    /\ DOMAIN regs = 0..31

C24_Effects ==
    /\ (call'.op \in {"isBusy", "getWriter"}) => regs' = regs
    /\ (call'.op \in {"markBusy", "clearBusy"}) =>
           /\ OutOfFile(call'.reg) => regs' = regs
           /\ \A r \in DOMAIN regs : r # call'.reg => regs'[r] = regs[r]
    /\ (call'.op = "clearBusy" /\ ~OutOfFile(call'.reg)) =>
           /\ regs'[call'.reg].writer_id = regs[call'.reg].writer_id
           /\ regs'[call'.reg].ready_cycle = regs[call'.reg].ready_cycle

C24_ScoreboardQueries == []C24_Returns /\ [][C24_Effects]_vars

\* isBusy has just answered false for a register whose busy flag is set and
\* whose ready_cycle is the cycle asked about
C24_Witness ==
    /\ Called("isBusy")
    /\ call.reg = 0
    /\ regs[0].busy
    /\ regs[0].ready_cycle = call.current_cycle
    /\ call.ret = FALSE
    /\ regs[31].busy

(***************************************************************************)
(* C25: unit pool bounds.  0 <= available[u] <= capacity[u] for every unit *)
(* at all times; allocate(u) with available[u] = 0, or with u = ANY,       *)
(* returns false and changes nothing; release(u) with available[u] =       *)
(* capacity[u], or with u = ANY, changes nothing.  A successful allocate   *)
(* takes exactly one unit of u, a release below capacity gives one back.   *)
(***************************************************************************)
C25_Bounds ==
    /\ DOMAIN available = Units
    /\ \A u \in Units : 0 <= available[u] /\ available[u] <= capacity[u]

C25_Effects ==
    /\ call'.op = "isAvailable" => available' = available
    /\ call'.op = "allocate" =>
           IF call'.unit = ANY_UNIT \/ available[call'.unit] = 0
           THEN call'.ret = FALSE /\ available' = available
           ELSE /\ call'.ret = TRUE
                /\ available' =
                       [available EXCEPT ![call'.unit] = available[call'.unit] - 1]
    /\ call'.op = "release" =>
           IF call'.unit = ANY_UNIT \/ available[call'.unit] = capacity[call'.unit]
           THEN available' = available
           ELSE available' =
                    [available EXCEPT ![call'.unit] = available[call'.unit] + 1]

C25_UnitPoolBounds == []C25_Bounds /\ [][C25_Effects]_vars

\* allocate has just been refused on the exhausted FPU while both ALUs are
\* out as well
C25_Witness ==
    /\ Called("allocate")
    /\ call.unit = FPU_UNIT
    /\ call.ret = FALSE
    /\ available[FPU_UNIT] = 0
    /\ available[ALU_UNIT] = 0

(***************************************************************************)
(* C31: for every program without NOP no slot waits forever.  Each slot in *)
(* ISSUE eventually allocates its unit and reaches COMPLETE; the run ends  *)
(* with completed = number of instructions, at a cycle no later than 4 +   *)
(* the sum over the instructions of (latency + 1) whenever that bound does *)
(* not exceed MAX_CYCLES.                                                  *)
(***************************************************************************)
RECURSIVE OccupancySum(_)
OccupancySum(k) ==
    IF k = 0 THEN 0
    ELSE OccupancySum(k - 1) + getLatency(instructions[k].opcode) + 1

CycleBound == 4 + OccupancySum(N)
\* slot k exists and is in ISSUE: it has no unit yet
Waiting(k) ==
    IF k \in Slots
    THEN Stage(k) = ISSUE /\ states[k].assigned_unit = ANY_UNIT
    ELSE FALSE
\* slot k exists, was given the unit of its opcode and is COMPLETE
Retired(k) ==
    IF k \in Slots
    THEN Stage(k) = COMPLETE /\ states[k].assigned_unit = Unit(k)
    ELSE FALSE
NoNop == ~HasNop(instructions)

C31_NoSlotWaitsForever ==
    /\ (NoNop /\ \E k \in 1..LiveMaxInstrs : Waiting(k))
           ~> (pc = "done" /\ completed = N /\ \A k \in Slots : Retired(k))
    /\ [](NoNop => \A k \in Slots : Retired(k) \/ Stage(k) # COMPLETE)
    /\ []((NoNop /\ pc = "done" /\ CycleBound <= MAX_CYCLES) =>
             /\ completed = N
             /\ cycle <= CycleBound
             /\ Result.totalCycles <= CycleBound
             /\ Result.instructionsCompleted = N)

\* FMUL; FADD has ended exactly at the bound: the FADD waited in ISSUE for
\* the one FPU until the FMUL was retired, then ran and was retired itself
C31_Witness ==
    /\ TwoFpuOps
    /\ pc = "done"
    /\ completed = 2
    /\ states[2].issue_cycle > 4
    /\ Stage(2) = COMPLETE
    /\ cycle = CycleBound

====
